---- MODULE Spec2Model ----
(***************************************************************************)
(* Model of pairwise_de.py: the Analysis object driven by main().          *)
(*                                                                         *)
(* File names and sample names are sequences of one-character strings, so  *)
(* that slicing (x[:-7]), concatenation (x + '.11.tsv'), str.replace and   *)
(* str.endswith are computed as the code computes them.                    *)
(* P-values are integers in units of 1e-4: 0.001 is 10, 0.0001 is 1,       *)
(* 0.0009 is 9, 0.5 is 5000.  logFC and logCPM are small integers.         *)
(* The std columns of the ranked table are not integer-valued and are      *)
(* left out; medians are kept doubled (Median2) so they stay integers.     *)
(***************************************************************************)
EXTENDS Integers, Sequences, FiniteSets, TLC

\* ---------------------------------------------------------------- bounds
MaxUnits == 3
MaxCores == 2

\* ------------------------------------------------------- program constants
\* df_norm.PValue < 0.001
MaskThreshold == 10
\* y < 0.001
RankThreshold == 10
\* x[:-7]
SuffixLen == 7

\* str(None) as format() renders it
None == <<"N", "o", "n", "e">>

\* ------------------------------------------------------------ string helpers
RECURSIVE Replace(_, _, _)
Replace(s, old, new) ==
    IF s = <<>> THEN <<>>
    ELSE <<IF Head(s) = old THEN new ELSE Head(s)>> \o Replace(Tail(s), old, new)

Contains(s, sub) ==
    \E i \in 1..(Len(s) - Len(sub) + 1) : SubSeq(s, i, i + Len(sub) - 1) = sub

EndsWith(s, suf) ==
    /\ Len(s) >= Len(suf)
    /\ SubSeq(s, Len(s) - Len(suf) + 1, Len(s)) = suf

\* x[:-n] for n > 0
DropLast(s, n) == IF Len(s) <= n THEN <<>> ELSE SubSeq(s, 1, Len(s) - n)

TCGA == <<"T", "C", "G", "A">>
DotTsv == <<".", "t", "s", "v">>
Dot11Tsv == <<".", "1", "1">> \o DotTsv
Dot01Tsv == <<".", "0", "1">> \o DotTsv
MaskedGenesSuffix == <<"_", "m", "a", "s", "k", "e", "d", "_", "g", "e", "n", "e", "s">>

\* generic helpers
Range(s) == {s[i] : i \in DOMAIN s}

RECURSIVE PermSeqs(_)
PermSeqs(S) ==
    IF S = {} THEN {<<>>}
    ELSE UNION {{<<x>> \o p : p \in PermSeqs(S \ {x})} : x \in S}

EmptyDir == <<>>

\* a directory (or dict) d with entry k set to v
Put(d, k, v) == [x \in DOMAIN d \cup {k} |-> IF x = k THEN v ELSE d[x]]

Remove(d, ks) == [x \in DOMAIN d \ ks |-> d[x]]

\* ----------------------------------------------------------------- inputs
\* Columns of the combined tissue dataframe: GTEx columns, then TCGA columns
\* '<TCGA-subject>-<sample type>'.
Column(subject, t1, t2) == TCGA \o <<"-", subject, "-", t1, t2>>

GtexColumn == <<"G", "T", "E", "X", "-", "1">>

ColumnUniverse ==
    << Column("A", "0", "1"), Column("A", "1", "1"), Column("A", "1", "0"),
       Column("B", "0", "1"), Column("C", "1", "1") >>

RECURSIVE PickColumns(_, _)
PickColumns(S, i) ==
    IF i > Len(ColumnUniverse) THEN <<>>
    ELSE (IF i \in S THEN <<ColumnUniverse[i]>> ELSE <<>>) \o PickColumns(S, i + 1)

ColumnChoices ==
    {<<GtexColumn>> \o PickColumns(S, 1) :
        S \in {T \in SUBSET (1..Len(ColumnUniverse)) : Cardinality(T) <= MaxUnits}}

\* Result tables the external computation can write: rows ordered by logFC,
\* gene ids unique within a table.
Row(g, p, f, c) == [gene |-> g, PValue |-> p, logFC |-> f, logCPM |-> c]

Table1 == << Row("g1", 1, -3, 5), Row("g2", 5000, 0, 4) >>
Table2 == << Row("g3", 10, -1, 2), Row("g1", 5000, 1, 6), Row("g2", 9, 2, 3) >>
Table3 == << Row("g3", 1, -2, 1), Row("g1", 9, 3, 7) >>

ResultTables == {Table1, Table2, Table3}

\* The gene mapping table (columns geneId, geneName); g3 has no mapping.
id_map == << [geneId |-> "g1", geneName |-> "SYM1"], [geneId |-> "g2", geneName |-> "SYM2"] >>

\* What the Rscript process of a sample prints.
ProcStdout(sample) == <<"o", "u", "t", ":">> \o sample
ProcStderr(sample) == <<"e", "r", "r", ":">> \o sample

VARIABLES
    pc,             \* position of main()
    cores,          \* self.cores
    columns,        \* self.df.columns
    tcga_names,     \* self.tcga_names
    next_i,         \* executor.map: index of the next sample to submit
    work_queue,     \* ThreadPoolExecutor._work_queue
    threads,        \* len(ThreadPoolExecutor._threads)
    running,        \* samples whose Rscript process a worker is waiting on
    invoked,        \* per sample, number of Rscript processes started
    futures,        \* per submitted sample, the outcome stored in its future
    pairwise_dir,   \* regular files of pairwise_results/
    matched_dir,    \* pairwise_results/matched_results/
    unmatched_dir,  \* pairwise_results/unmatched_results/
    masked_dir,     \* pairwise_results/masked_results/
    results_dir,    \* results/
    dfs,            \* self.dfs
    pvals, fc, cpm, \* self.pvals, self.fc, self.cpm
    insertion,      \* history: genes in order of first insertion in self.pvals
    genes           \* self.genes

vars == <<pc, cores, columns, tcga_names, next_i, work_queue, threads, running,
          invoked, futures, pairwise_dir, matched_dir, unmatched_dir, masked_dir,
          results_dir, dfs, pvals, fc, cpm, insertion, genes>>

poolVars == <<work_queue, threads, running, invoked, futures>>
dirVars == <<matched_dir, unmatched_dir, masked_dir, results_dir, dfs>>
accVars == <<pvals, fc, cpm, insertion, genes>>

\* Analysis.__init__ and the arguments of main()
Init ==
    /\ pc = "run_pairwise_edger"
    /\ cores \in 1..MaxCores
    /\ columns \in ColumnChoices
    /\ tcga_names = <<>>
    /\ next_i = 1
    /\ work_queue = <<>>
    /\ threads = 0
    /\ running = {}
    /\ invoked = <<>>
    /\ futures = <<>>
    /\ pairwise_dir = EmptyDir
    /\ matched_dir = EmptyDir
    /\ unmatched_dir = EmptyDir
    /\ masked_dir = EmptyDir
    /\ results_dir = EmptyDir
    /\ dfs = {}
    /\ pvals = <<>>
    /\ fc = <<>>
    /\ cpm = <<>>
    /\ insertion = <<>>
    /\ genes = <<>>

\* ------------------------------------------------------------- Job Runner
\* [name.replace('-', '.') for name in self.df.columns if 'TCGA' in name]
TcgaNames(cols) ==
    LET keep(name) == Contains(name, TCGA)
        kept == SelectSeq(cols, keep)
    IN  [i \in DOMAIN kept |-> Replace(kept[i], "-", ".")]

\* run_pairwise_edger up to the with statement
RunPairwiseEdger ==
    /\ pc = "run_pairwise_edger"
    /\ tcga_names' = TcgaNames(columns)
    /\ pc' = "map"
    /\ UNCHANGED <<cores, columns, next_i, poolVars, pairwise_dir, dirVars, accVars>>

\* ThreadPoolExecutor._adjust_thread_count: a worker thread is added while
\* fewer than max_workers exist
AdjustThreadCountAlways(n, max_workers) == n + 1

AdjustThreadCount(n, max_workers) == IF n < max_workers THEN n + 1 ELSE n

\* executor.map(self._run_edger, self.tcga_names): one submit per sample; the
\* iterator map returns is dropped, so no future's result() is ever called.
Submit ==
    /\ pc = "map"
    /\ next_i <= Len(tcga_names)
    /\ LET sample == tcga_names[next_i]
       IN  /\ work_queue' = Append(work_queue, sample)
           /\ futures' = Put(futures, sample, [state |-> "PENDING"])
           /\ invoked' = Put(invoked, sample, 0)
    /\ threads' = AdjustThreadCount(threads, cores)
    /\ next_i' = next_i + 1
    /\ UNCHANGED <<pc, cores, columns, tcga_names, running, pairwise_dir, dirVars, accVars>>

\* leaving the body of the with statement
MapReturns ==
    /\ pc = "map"
    /\ next_i > Len(tcga_names)
    /\ pc' = "executor_exit"
    /\ UNCHANGED <<cores, columns, tcga_names, next_i, poolVars, pairwise_dir, dirVars, accVars>>

\* a worker thread is free to take the next work item
WorkerFree == Cardinality(running) < threads

\* a worker takes the head of the queue and _run_edger starts the process
RunEdgerStart ==
    /\ work_queue # <<>>
    /\ WorkerFree
    /\ LET sample == Head(work_queue)
       IN  /\ running' = running \cup {sample}
           /\ invoked' = [invoked EXCEPT ![sample] = @ + 1]
    /\ work_queue' = Tail(work_queue)
    /\ UNCHANGED <<pc, cores, columns, tcga_names, next_i, threads, futures,
                   pairwise_dir, dirVars, accVars>>

\* p = subprocess.Popen([...]); out, err = p.communicate()
\* communicate() returns the text of a stream only if it was opened as a pipe
Communicate(sample, piped) ==
    IF piped THEN <<ProcStdout(sample), ProcStderr(sample)>> ELSE <<None, None>>

\* 'EdgeR run failed!\n\n\nstdout:\n{}stderr:\n{}\n\n\n'.format(out, err)
ErrorMessage(out, err) == << <<"EdgeR run failed!">>, <<"stdout:">>, out, <<"stderr:">>, err >>

\* '<pairwise_dir>/<sample>.tsv'
OutputNameBySubject(sample) == DropLast(sample, 3) \o DotTsv

OutputName(sample) == sample \o DotTsv

\* the process exits; _run_edger returns 'yay!' or raises RuntimeError, and
\* the worker stores either in the future
RunEdgerFinish ==
    \E sample \in running :
        /\ running' = running \ {sample}
        /\ \E returncode \in {0, 1} :
            LET oe == Communicate(sample, FALSE)
            IN  IF returncode = 0
                THEN /\ \E t \in ResultTables :
                            pairwise_dir' = Put(pairwise_dir, OutputName(sample), t)
                     /\ futures' = [futures EXCEPT ![sample] =
                                        [state |-> "FINISHED", result |-> "yay!"]]
                ELSE /\ pairwise_dir' = pairwise_dir
                     /\ futures' = [futures EXCEPT ![sample] =
                                        [state |-> "FINISHED",
                                         exception |-> ErrorMessage(oe[1], oe[2])]]
        /\ UNCHANGED <<pc, cores, columns, tcga_names, next_i, work_queue, threads,
                       invoked, dirVars, accVars>>

\* ThreadPoolExecutor.__exit__: shutdown(wait=True) joins the worker threads,
\* which exit once the queue is drained
ShutdownNoWait == TRUE

ShutdownWait == work_queue = <<>> /\ running = {}

\* end of the with statement; run_pairwise_edger returns and main() goes on
ExecutorExit ==
    /\ pc = "executor_exit"
    /\ ShutdownWait
    /\ pc' = "read_results"
    /\ UNCHANGED <<cores, columns, tcga_names, next_i, poolVars, pairwise_dir, dirVars, accVars>>

\* ------------------------------------------------------ Result Classifier
\* [x for x in os.listdir(self.pairwise_dir) if x.endswith('.tsv')]
ListTsv(dir) == {x \in DOMAIN dir : EndsWith(x, DotTsv)}

\* x[:-7]
Barcode(x) == DropLast(x, SuffixLen)

\* Counter(barcodes)[b]; file names of one directory are distinct
BarcodeCount(files, b) == Cardinality({x \in files : Barcode(x) = b})

\* {item for item, count in Counter(barcodes).items() if count == 2}
CountIsTwoOrMore(files, b) == BarcodeCount(files, b) >= 2

CountIsTwo(files, b) == BarcodeCount(files, b) = 2

\* {x for x in matched if x + '.11.tsv' in self.dfs and x + '.01.tsv' in self.dfs}
BothTypesEither(files, b) == (b \o Dot11Tsv) \in files \/ (b \o Dot01Tsv) \in files

BothTypes(files, b) == (b \o Dot11Tsv) \in files /\ (b \o Dot01Tsv) \in files

Matched(files) ==
    {b \in {Barcode(x) : x \in files} : CountIsTwo(files, b) /\ BothTypes(files, b)}

\* set([x + '.11.tsv' for x in matched] + [x + '.01.tsv' for x in matched])
MatchedFiles(matched) == {b \o Dot11Tsv : b \in matched} \cup {b \o Dot01Tsv : b \in matched}

\* ------------------------------------------------------------ Mask Engine
Index(df) == {df[i].gene : i \in DOMAIN df}

\* df_norm[df_norm.PValue < 0.001].index
MaskedGenesInclusive(df_norm) ==
    LET sig(r) == r.PValue <= MaskThreshold
        rows == SelectSeq(df_norm, sig)
    IN  [i \in DOMAIN rows |-> rows[i].gene]

MaskedGenes(df_norm) ==
    LET sig(r) == r.PValue < MaskThreshold
        rows == SelectSeq(df_norm, sig)
    IN  [i \in DOMAIN rows |-> rows[i].gene]

\* df_tumor.drop(gene, inplace=True), ValueError (label not in the index)
\* caught and ignored
Drop(df, gene) ==
    IF gene \in Index(df)
    THEN LET keep(r) == r.gene # gene IN SelectSeq(df, keep)
    ELSE df

RECURSIVE DropAll(_, _)
DropAll(df, gs) == IF gs = <<>> THEN df ELSE DropAll(Drop(df, Head(gs)), Tail(gs))

\* the masked '01' table of one match
MaskedTumor(dir, match) == DropAll(dir[match \o Dot01Tsv], MaskedGenes(dir[match \o Dot11Tsv]))

\* _produce_masks: the files it adds to masked_results/
ProduceMasks(dir, matched) ==
    [x \in {m \o Dot01Tsv : m \in matched} \cup {m \o MaskedGenesSuffix : m \in matched} |->
        IF EndsWith(x, Dot01Tsv)
        THEN MaskedTumor(dir, Barcode(x))
        ELSE MaskedGenes(dir[DropLast(x, Len(MaskedGenesSuffix)) \o Dot11Tsv])]

\* shutil.move of every name in names from src into dst
MoveInto(dst, src, names) ==
    [x \in DOMAIN dst \cup names |-> IF x \in names THEN src[x] ELSE dst[x]]

\* read_results up to the ranking loop
ReadResults ==
    /\ pc = "read_results"
    /\ LET files == ListTsv(pairwise_dir)
           matched == Matched(files)
           moved == MatchedFiles(matched)
       IN  /\ dfs' = files
           /\ masked_dir' = MoveInto(masked_dir, ProduceMasks(pairwise_dir, matched),
                                     DOMAIN ProduceMasks(pairwise_dir, matched))
           /\ unmatched_dir' = MoveInto(unmatched_dir, pairwise_dir, files \ moved)
           /\ matched_dir' = MoveInto(matched_dir, pairwise_dir, moved)
           /\ pairwise_dir' = Remove(pairwise_dir, files)
    /\ pc' = "rank_masked"
    /\ UNCHANGED <<cores, columns, tcga_names, next_i, poolVars, results_dir, accVars>>

\* -------------------------------------------------------- Rank Aggregator
\* self.pvals[gene].append(v) on a defaultdict(list)
AppendTo(d, gene, v) == Put(d, gene, (IF gene \in DOMAIN d THEN d[gene] ELSE <<>>) \o <<v>>)

\* for gene in df.index: append PValue, logFC, logCPM
RECURSIVE AccumulateRows(_, _)
AccumulateRows(acc, df) ==
    IF df = <<>> THEN acc
    ELSE LET r == Head(df)
         IN  AccumulateRows(
                [pvals |-> AppendTo(acc.pvals, r.gene, r.PValue),
                 fc |-> AppendTo(acc.fc, r.gene, r.logFC),
                 cpm |-> AppendTo(acc.cpm, r.gene, r.logCPM),
                 insertion |-> IF r.gene \in DOMAIN acc.pvals THEN acc.insertion
                               ELSE Append(acc.insertion, r.gene)],
                Tail(df))

\* for f in [x for x in os.listdir(directory) if x.endswith('.tsv')]
RECURSIVE AccumulateFiles(_, _, _)
AccumulateFiles(acc, dir, listing) ==
    IF listing = <<>> THEN acc
    ELSE AccumulateFiles(AccumulateRows(acc, dir[Head(listing)]), dir, Tail(listing))

\* the accumulator a pass starts from: self.pvals, self.fc, self.cpm are
\* created once, in __init__, and never reset
PassAccumulator == [pvals |-> pvals, fc |-> fc, cpm |-> cpm, insertion |-> insertion]

\* k-th smallest entry of a non-empty series
KthSmallest(s, k) ==
    CHOOSE v \in Range(s) :
        /\ Cardinality({i \in DOMAIN s : s[i] < v}) < k
        /\ k <= Cardinality({i \in DOMAIN s : s[i] <= v})

\* 2 * np.median(s)
Median2(s) ==
    IF Len(s) % 2 = 1 THEN 2 * KthSmallest(s, (Len(s) + 1) \div 2)
    ELSE KthSmallest(s, Len(s) \div 2) + KthSmallest(s, Len(s) \div 2 + 1)

\* sum([1 for y in self.pvals[x] if y < 0.001])
RECURSIVE PvalCountsInclusive(_)
PvalCountsInclusive(s) ==
    IF s = <<>> THEN 0
    ELSE (IF Head(s) <= RankThreshold THEN 1 ELSE 0) + PvalCountsInclusive(Tail(s))

RECURSIVE PvalCounts(_)
PvalCounts(s) ==
    IF s = <<>> THEN 0
    ELSE (IF Head(s) < RankThreshold THEN 1 ELSE 0) + PvalCounts(Tail(s))

\* the values _rank_results computes for gene x
RankedRow(acc, x) ==
    [gene |-> x,
     pval |-> Median2(acc.pvals[x]),
     pval_counts |-> PvalCounts(acc.pvals[x]),
     fc |-> Median2(acc.fc[x]),
     cpm |-> Median2(acc.cpm[x]),
     num_samples |-> Len(acc.pvals[x])]

\* ... for every key of self.pvals
RowByGene(acc) == [x \in DOMAIN acc.pvals |-> RankedRow(acc, x)]

\* the columns _rank_results fills, [... for x in self.genes]
RankedRows(rowByGene, keys) == [i \in DOMAIN keys |-> rowByGene[keys[i]]]

\* ranked.sort_values('pval_counts', inplace=True, ascending=False) with the
\* default kind='quicksort', which is not stable: any arrangement of the rows
\* with non-increasing pval_counts
SortValuesAscending(df) ==
    {p \in PermSeqs(Range(df)) :
        \A i, j \in DOMAIN p : i < j => p[i].pval_counts <= p[j].pval_counts}

SortValues(df) ==
    {p \in PermSeqs(Range(df)) :
        \A i, j \in DOMAIN p : i < j => p[i].pval_counts >= p[j].pval_counts}

\* ------------------------------------------------------- Gene Name Mapper
\* {x: y for x, y in itertools.izip(id_map['geneId'], id_map['geneName'])}
GeneMappings ==
    [g \in {id_map[i].geneId : i \in DOMAIN id_map} |->
        id_map[CHOOSE i \in DOMAIN id_map :
                  /\ id_map[i].geneId = g
                  /\ \A j \in DOMAIN id_map : id_map[j].geneId = g => j <= i].geneName]

\* try: gene_mappings[gene] except KeyError: gene
MappedGene(gene) == IF gene \in DOMAIN GeneMappings THEN GeneMappings[gene] ELSE gene

\* df['gene_name'] = mapped_genes: a list is assigned by position, and
\* mapped_genes follows self.genes
AddMappedGenes(df, keys) ==
    [i \in DOMAIN df |->
        [gene |-> df[i].gene, pval |-> df[i].pval, pval_counts |-> df[i].pval_counts,
         fc |-> df[i].fc, cpm |-> df[i].cpm, num_samples |-> df[i].num_samples,
         gene_name |-> MappedGene(keys[i])]]

\* one iteration of 'for directory in [self.masked_dir, self.unmatched_dir]':
\* _rank_results, _add_mapped_genes, to_csv.  os.listdir and dict.keys()
\* (Python 2) return their entries in an order the code does not control.
RankDirectory(name, dir) ==
    \E listing \in PermSeqs(ListTsv(dir)) :
        LET acc == AccumulateFiles(PassAccumulator, dir, listing)
            rowByGene == RowByGene(acc)
        IN  /\ pvals' = acc.pvals
            /\ fc' = acc.fc
            /\ cpm' = acc.cpm
            /\ insertion' = acc.insertion
            /\ \E keys \in PermSeqs(DOMAIN acc.pvals) :
                /\ genes' = keys
                /\ \E ranked \in SortValues(RankedRows(rowByGene, keys)) :
                    results_dir' = Put(results_dir, name, AddMappedGenes(ranked, keys))

RankMasked ==
    /\ pc = "rank_masked"
    /\ RankDirectory("masked_results-ranked.tsv", masked_dir)
    /\ pc' = "rank_unmatched"
    /\ UNCHANGED <<cores, columns, tcga_names, next_i, poolVars, pairwise_dir,
                   matched_dir, unmatched_dir, masked_dir, dfs>>

RankUnmatched ==
    /\ pc = "rank_unmatched"
    /\ RankDirectory("unmatched_results-ranked.tsv", unmatched_dir)
    /\ pc' = "done"
    /\ UNCHANGED <<cores, columns, tcga_names, next_i, poolVars, pairwise_dir,
                   matched_dir, unmatched_dir, masked_dir, dfs>>

Next ==
    \/ RunPairwiseEdger
    \/ Submit
    \/ MapReturns
    \/ RunEdgerStart
    \/ RunEdgerFinish
    \/ ExecutorExit
    \/ ReadResults
    \/ RankMasked
    \/ RankUnmatched

Spec == Init /\ [][Next]_vars

\* ================================================================ claims
Failed(s) == futures[s].state = "FINISHED" /\ "exception" \in DOMAIN futures[s]

AnyJobFailed == \E s \in DOMAIN futures : Failed(s)

AfterRun == pc \in {"read_results", "rank_masked", "rank_unmatched", "done"}

AfterClassify == pc \in {"rank_masked", "rank_unmatched", "done"}

MaskedRanked == "masked_results-ranked.tsv"
UnmatchedRanked == "unmatched_results-ranked.tsv"

SampleName(subject, t1, t2) == TCGA \o <<".", subject, ".", t1, t2>>
FileName(subject, t1, t2) == SampleName(subject, t1, t2) \o DotTsv

\* C1: once any external computation has exited non-zero, run_pairwise_edger
\* raises: main() never gets to read_results and no ranked table is written.
C1_FailureAbortsRun ==
    AnyJobFailed => (~AfterRun /\ DOMAIN results_dir = {})

\* C2: each ranked table is built from the files of its own result-set only:
\* num_samples of a gene is the number of .tsv files of that directory in
\* which the gene appears, a gene of no file has no row, and the series left
\* in the accumulator after the last pass hold values of that pass only.
FilesWithGene(dir, g) == {x \in ListTsv(dir) : g \in Index(dir[x])}

ValuesOf(dir, g, column) ==
    {LET df == dir[x]
         i == CHOOSE k \in DOMAIN df : df[k].gene = g
     IN  IF column = "PValue" THEN df[i].PValue
         ELSE IF column = "logFC" THEN df[i].logFC ELSE df[i].logCPM
     : x \in FilesWithGene(dir, g)}

TableScopedTo(table, dir) ==
    \A i \in DOMAIN table :
        /\ FilesWithGene(dir, table[i].gene) # {}
        /\ table[i].num_samples = Cardinality(FilesWithGene(dir, table[i].gene))

AccumulatorScopedTo(dir) ==
    \A g \in DOMAIN pvals :
        /\ Len(pvals[g]) = Cardinality(FilesWithGene(dir, g))
        /\ Range(pvals[g]) = ValuesOf(dir, g, "PValue")
        /\ Range(fc[g]) = ValuesOf(dir, g, "logFC")
        /\ Range(cpm[g]) = ValuesOf(dir, g, "logCPM")

C2_AccumulatorPerPass ==
    pc = "done" =>
        /\ TableScopedTo(results_dir[MaskedRanked], masked_dir)
        /\ TableScopedTo(results_dir[UnmatchedRanked], unmatched_dir)
        /\ AccumulatorScopedTo(unmatched_dir)

\* C3: in every ranked table written, each row's gene_name is the display
\* name of that row's own gene id (mapped name, else the raw id).
DisplayName(g) ==
    IF \E i \in DOMAIN id_map : id_map[i].geneId = g
    THEN id_map[CHOOSE i \in DOMAIN id_map : id_map[i].geneId = g].geneName
    ELSE g

C3_GeneNameOfRow ==
    \A name \in DOMAIN results_dir :
        \A i \in DOMAIN results_dir[name] :
            results_dir[name][i].gene_name = DisplayName(results_dir[name][i].gene)

\* C4: after classification, a file is in matched_results exactly when its
\* type is 01 or 11, the file of the other type exists for the same subject
\* and no third file shares the subject; every other file is in
\* unmatched_results; each result file written is in exactly one area.
SubjectOf(x) == SubSeq(x, 1, Len(x) - 7)
TypeOf(x) == SubSeq(x, Len(x) - 5, Len(x) - 4)

PairedFile(x) ==
    /\ TypeOf(x) \in {<<"0", "1">>, <<"1", "1">>}
    /\ \E y \in dfs :
        /\ y # x
        /\ SubjectOf(y) = SubjectOf(x)
        /\ TypeOf(y) \in {<<"0", "1">>, <<"1", "1">>}
        /\ \A z \in dfs : SubjectOf(z) = SubjectOf(x) => z \in {x, y}

C4_Classifier ==
    AfterClassify =>
        /\ DOMAIN matched_dir = {x \in dfs : PairedFile(x)}
        /\ DOMAIN unmatched_dir = {x \in dfs : ~PairedFile(x)}
        /\ ListTsv(pairwise_dir) = {}
        /\ dfs = {OutputName(s) : s \in {t \in DOMAIN futures : ~Failed(t)}}

C4_Witness ==
    /\ AfterClassify
    /\ dfs = {FileName("A", "0", "1"), FileName("A", "1", "1"), FileName("C", "1", "1")}
    /\ DOMAIN matched_dir = {FileName("A", "0", "1"), FileName("A", "1", "1")}
    /\ DOMAIN unmatched_dir = {FileName("C", "1", "1")}

\* C5: for every matched pair the masked 01 table is the tumor table without
\* the rows of the genes whose normal PValue is strictly below 0.001, other
\* rows unchanged and in order, and the masked-gene list is exactly the set
\* of those normal genes, whether or not the tumor table has them.
Significant(df_norm) == {df_norm[i].gene : i \in {k \in DOMAIN df_norm : df_norm[k].PValue < 10}}

MatchedSubjects == {SubjectOf(x) : x \in DOMAIN matched_dir}

MaskOf(subject) ==
    LET normal == matched_dir[subject \o Dot11Tsv]
        tumor == matched_dir[subject \o Dot01Tsv]
        out == masked_dir[subject \o Dot01Tsv]
        list == masked_dir[subject \o MaskedGenesSuffix]
        kept(r) == r.gene \notin Significant(normal)
    IN  /\ out = SelectSeq(tumor, kept)
        /\ Index(out) = Index(tumor) \ Significant(normal)
        /\ Range(list) = Significant(normal)
        /\ Len(list) = Cardinality(Significant(normal))

C5_Masking ==
    AfterClassify =>
        /\ DOMAIN masked_dir =
              {b \o Dot01Tsv : b \in MatchedSubjects} \cup {b \o MaskedGenesSuffix : b \in MatchedSubjects}
        /\ \A b \in MatchedSubjects : MaskOf(b)

C5_Witness ==
    /\ AfterClassify
    /\ FileName("A", "1", "1") \in DOMAIN matched_dir
    /\ matched_dir[FileName("A", "1", "1")] = Table1
    /\ matched_dir[FileName("A", "0", "1")] = Table2
    /\ Index(masked_dir[FileName("A", "0", "1")]) = {"g2", "g3"}
    /\ masked_dir[SubjectOf(FileName("A", "0", "1")) \o MaskedGenesSuffix] = <<"g1">>

\* C6: at most `cores` external computations are in flight at any time, no
\* sample's computation is started twice, and when run_pairwise_edger has
\* returned exactly one computation has been started per sample.
C6_BoundedPool ==
    /\ Cardinality(running) <= cores
    /\ \A s \in DOMAIN invoked : invoked[s] <= 1
    /\ AfterRun => \A i \in DOMAIN tcga_names :
                      /\ tcga_names[i] \in DOMAIN invoked
                      /\ invoked[tcga_names[i]] = 1

C6_Witness ==
    /\ Cardinality(running) = cores
    /\ work_queue # <<>>
    /\ Len(tcga_names) > cores

\* C7: when read_results is entered (and from then on) every sample has been
\* submitted, none waits in the queue and none is running.
C7_RankAfterRunner ==
    AfterRun =>
        /\ next_i > Len(tcga_names)
        /\ work_queue = <<>>
        /\ running = {}
        /\ \A s \in DOMAIN futures : futures[s].state = "FINISHED"
        /\ DOMAIN futures = Range(tcga_names)

C7_Witness ==
    /\ pc = "read_results"
    /\ cores > 1
    /\ Len(tcga_names) >= 3
    /\ \A s \in DOMAIN futures : futures[s].state = "FINISHED"

\* C8 (as stated): every ranked table is in descending pval_counts order and
\* rows with equal counts follow the order of first insertion of their genes
\* into the accumulator.
InsertionPos(g) == CHOOSE k \in DOMAIN insertion : insertion[k] = g

Descending(table) ==
    \A i, j \in DOMAIN table : i < j => table[i].pval_counts >= table[j].pval_counts

TiesInInsertionOrder(table) ==
    \A i, j \in DOMAIN table :
        (i < j /\ table[i].pval_counts = table[j].pval_counts)
            => InsertionPos(table[i].gene) < InsertionPos(table[j].gene)

RowsFollowSeries(table) ==
    /\ {table[i].gene : i \in DOMAIN table} = DOMAIN pvals
    /\ Len(table) = Cardinality(DOMAIN pvals)
    /\ \A i \in DOMAIN table :
        LET series == pvals[table[i].gene]
        IN  /\ table[i].pval_counts = Cardinality({k \in DOMAIN series : series[k] < 10})
            /\ table[i].num_samples = Len(series)

C9_CountsAndSamples ==
    /\ pc = "rank_unmatched" => RowsFollowSeries(results_dir[MaskedRanked])
    /\ pc = "done" => RowsFollowSeries(results_dir[UnmatchedRanked])

RowOf(table, g) == table[CHOOSE i \in DOMAIN table : table[i].gene = g]

C9_Witness ==
    /\ pc = "done"
    /\ Cardinality(ListTsv(unmatched_dir)) = 3
    /\ "g1" \in DOMAIN pvals
    /\ pvals["g1"] = <<1, 5000, 9>>
    /\ RowOf(results_dir[UnmatchedRanked], "g1").pval_counts = 2
    /\ RowOf(results_dir[UnmatchedRanked], "g1").num_samples = 3
    /\ "g3" \in DOMAIN pvals
    /\ pvals["g3"] = <<10, 1>>
    /\ RowOf(results_dir[UnmatchedRanked], "g3").pval_counts = 1

\* C10: the error stored for a failed sample carries what its process wrote
\* to stdout and to stderr and names the sample.
C10_ErrorCarriesOutput ==
    \A s \in DOMAIN futures :
        Failed(s) =>
            /\ ProcStdout(s) \in Range(futures[s].exception)
            /\ ProcStderr(s) \in Range(futures[s].exception)
            /\ \E part \in Range(futures[s].exception) : Contains(part, s)

\* C11: with every sample succeeding, whatever the pool size and the order
\* in which workers start and finish, run_pairwise_edger ends with exactly
\* one result file per sample, named after it; and a step of the worker pool
\* never replaces or removes a result file already written nor alters the
\* stored outcome of a finished sample.
ExpectedFiles == {tcga_names[i] \o DotTsv : i \in DOMAIN tcga_names}

AllFilesWritten ==
    (pc = "read_results" /\ ~AnyJobFailed) =>
        /\ DOMAIN pairwise_dir = ExpectedFiles
        /\ Cardinality(DOMAIN pairwise_dir) = Len(tcga_names)

WorkersDisjoint ==
    pc \in {"map", "executor_exit"} =>
        /\ \A x \in DOMAIN pairwise_dir :
              x \in DOMAIN pairwise_dir' /\ pairwise_dir'[x] = pairwise_dir[x]
        /\ \A s \in DOMAIN futures :
              futures[s].state = "FINISHED" => futures'[s] = futures[s]
        /\ Cardinality(DOMAIN pairwise_dir') <= Cardinality(DOMAIN pairwise_dir) + 1

C11_UnitsIndependent == []AllFilesWritten /\ [][WorkersDisjoint]_vars

C11_Witness ==
    /\ pc = "read_results"
    /\ ~AnyJobFailed
    /\ cores > 1
    /\ Len(tcga_names) = 3
    /\ Cardinality(DOMAIN pairwise_dir) = 3
    /\ \E x, y \in DOMAIN pairwise_dir : x # y /\ SubjectOf(x) = SubjectOf(y)

====
